---------------------------- MODULE Spec2Model ----------------------------
(***************************************************************************)
(* The RTMP client session of gortmp: src/client.go (Client, Reset,        *)
(* Connect, NextTransactionId, GetResponse, SendMessage, Call, Read,       *)
(* Write) and src/client_route.go (routeLoop, routeCommandMessage).        *)
(*                                                                         *)
(* Goroutines are processes with a program counter; channels are           *)
(* identified by a number (0 is the nil channel) and are unbuffered, so a  *)
(* send completes together with the matching receive.  Wall-clock time is  *)
(* abstracted: a timer that is armed may fire at any later step.           *)
(***************************************************************************)
EXTENDS Integers, Sequences, FiniteSets, TLC

\* ------------------------------------------------------------------ bounds
MaxTid == 2         \* transaction ids explored: 1..MaxTid

\* per specification: successful dials (each may start one routeLoop),
\* Reset/Disconnect calls, inbound messages, id allocations per session and
\* bytes per counter explored
RouteDials == 2
RouteResets == 1
RouteMsgs == 2
LifeDials == 1
LifeResets == 2
LifeMsgs == 1
LifeAlloc == 1
LifeBytes == 1
CallResets == 1
CallMsgs == 1
CallTids == 1       \* ... and the ids and concurrent Call invocations it uses
CallCallers == 1
IsoCallers == 2     \* concurrent Call invocations of the retrieval specification
IdsDials == 1
IdsResets == 1
IdsAlloc == 3
StoreResets == 1
StoreMsgs == 2
LockResets == 1
LockMsgs == 1
TableResets == 1
TableAlloc == 3
TableResponses == 2

\* routeLoop goroutine slots: as many as the widest specification dials
MaxRouters ==
    CHOOSE n \in {RouteDials, LifeDials, IdsDials} :
        \A m \in {RouteDials, LifeDials, IdsDials} : m <= n

\* Call invocation slots: as many as the widest specification runs at once
MaxCallers ==
    CHOOSE n \in {CallCallers, IsoCallers} : \A m \in {CallCallers, IsoCallers} : m <= n

\* ------------------------------------------------------- program constants
DEFAULT_CHUNK_SIZE == 128
DEFAULT_WINDOW_SIZE == 2500000
HalfWord == 65536

\* a value reduced to 32 bits (modulo HalfWord * HalfWord), taken by 16-bit halves
Uint32(x) == ((x \div HalfWord) % HalfWord) * HalfWord + (x % HalfWord)

NilChan == 0
NilConn == 0
NoResponse == 0     \* a nil *Response; a response is named by the message it came from

Tids == 1..MaxTid
Routers == 1..MaxRouters
Callers == 1..MaxCallers

UrlKinds == {"unparsable", "rtmp", "rtmps", "unsupported"}

VARIABLES
    \* Client fields (src/client.go:18-44)
    url, connected, conn,
    outBytes, outMessages, outWindowSize, outChunkSize, outChunkStreams,
    inBytes, inMessages, inWindowSize, inChunkSize, inChunkStreams,
    responses, lastTransactionId, connectionId,
    \* the table routeCommandMessage stores into (src/client_route.go:34-36)
    results,
    \* c.responsesMutex: 0 when free, else the id of the GetResponse holding it
    responsesMutex,
    \* runtime: closed channels, closed transports, goroutine panics
    closedChans, closedConns, panicked,
    \* Connect in progress: its position and its local id
    cpc, cid,
    \* goroutines started by Connect
    routers, sendLoops, recvLoops,
    \* Call invocations in progress
    calls,
    \* history: what the last step was and what it returned, and counters
    last, idLog, owed, track, dispatched, resets, dials, nextSeq, hsOk, cmdOk

clientVars == <<url, connected, conn, outBytes, outMessages, outWindowSize,
                outChunkSize, outChunkStreams, inBytes, inMessages, inWindowSize,
                inChunkSize, inChunkStreams, responses, lastTransactionId,
                connectionId, results>>
runtimeVars == <<closedChans, closedConns, panicked>>
procVars == <<cpc, cid, routers, sendLoops, recvLoops, calls>>
histVars == <<last, idLog, owed, track, dispatched, resets, dials, nextSeq, hsOk, cmdOk>>
vars == <<clientVars, responsesMutex, runtimeVars, procVars, histVars>>

\* ------------------------------------------------------------ small helpers
EmptyTable == [t \in Tids |-> NoResponse]

NoMsg == [seq |-> 0, csid |-> "none", decodes |-> FALSE, tid |-> 0, ptype |-> "none"]

\* What the last step returned.  op names the operation; the other fields are
\* its results (and, for GetResponse, the response that was owed to the caller).
\* again: the step before it was the same operation (for GetResponse: on the
\* same id, and successful).
Ret(op, tid, ready, resp, due, err, again) ==
    [op |-> op, tid |-> tid, ready |-> ready, resp |-> resp, due |-> due,
     err |-> err, again |-> again]

Other(op) == Ret(op, 0, FALSE, NoResponse, NoResponse, "", FALSE)

ResetOps == {"Reset", "Disconnect"}

\* What has happened to responses since the last Reset.  overwrote: the
\* responses stored over an unretrieved one of the same id; timedOut: the ids
\* a Call gave up on; late: the responses dispatched for such an id afterwards;
\* firstSeq: the first inbound message that is received after the Reset.
NoTrack == [overwrote |-> {}, timedOut |-> {}, late |-> {}, firstSeq |-> 1]

\* sync.Mutex: the zero value is unlocked
NoHolder == 0

\* a step whose result no property reads
Quiet == Other("-")

\* born: the number of Resets before the loop was started
IdleRouter == [pc |-> "none", ch |-> NilChan, msg |-> NoMsg, born |-> 0]
IdleCall == [pc |-> "idle", tid |-> 0, ch |-> NilChan]

\* (variant: the close is left out)
CloseChan_skipped(ch, closed) == closed

\* close(ch): closing a closed channel panics
CloseChan(ch, closed) == closed \cup {ch}
ClosePanics(ch, closed) == ch \in closed

\* (variant: no new outbound channel is made, the first one is kept)
OutChanOf_kept(n) == 1

\* make(chan *Message): the fresh channel numbers of session n
OutChanOf(n) == 2 * n + 1
InChanOf(n) == 2 * n + 2

\* ------------------------------------------------------------------- Init
\* NewClient: the zero Client with its url, then Reset (nothing to close).
\* kinds: the urls explored; tables: the contents of the response table explored
InitState(kinds, tables) ==
    /\ url \in kinds
    /\ connected = FALSE
    /\ conn = NilConn
    /\ outBytes = 0
    /\ outMessages = OutChanOf(0)
    /\ outChunkSize = DEFAULT_CHUNK_SIZE
    /\ outWindowSize = DEFAULT_WINDOW_SIZE
    /\ outChunkStreams = {}
    /\ inBytes = 0
    /\ inMessages = InChanOf(0)
    /\ inChunkSize = DEFAULT_CHUNK_SIZE
    /\ inWindowSize = DEFAULT_WINDOW_SIZE
    /\ inChunkStreams = {}
    /\ responses \in tables
    /\ lastTransactionId = 0
    /\ connectionId = ""
    /\ results = EmptyTable
    /\ responsesMutex = NoHolder
    /\ closedChans = {}
    /\ closedConns = {}
    /\ panicked = "no"
    /\ cpc = "idle"
    /\ cid = ""
    /\ routers = [r \in Routers |-> IdleRouter]
    /\ sendLoops = {}
    /\ recvLoops = {}
    /\ calls = [p \in Callers |-> IdleCall]
    /\ last = Other("NewClient")
    /\ idLog = <<>>
    /\ owed = responses
    /\ track = NoTrack
    /\ dispatched = 0
    /\ resets = 0
    /\ dials = 0
    /\ nextSeq = 1
    /\ hsOk = {}
    /\ cmdOk = {}

Init == InitState(UrlKinds, {EmptyTable})

\* --------------------------------------------------------- IsAlive (57-63)
IsAlive == IF connected # TRUE THEN FALSE ELSE TRUE

\* Every other operation stops once a goroutine has panicked (the process dies).
Running == panicked = "no"

\* ------------------------------------------------------- Reset (65-93)
\* Reset closes the transport and both queues, then replaces every
\* per-connection field.  It takes no lock.  c.conn is closed but kept.
\* results is not among the fields it replaces.
ResetFields(op) ==
    /\ Running
    /\ connected' = FALSE
    /\ closedConns' = IF conn # NilConn THEN closedConns \cup {conn} ELSE closedConns
    /\ LET c1 == IF outMessages # NilChan THEN CloseChan(outMessages, closedChans)
                 ELSE closedChans
           p1 == outMessages # NilChan /\ ClosePanics(outMessages, closedChans)
           c2 == IF inMessages # NilChan THEN CloseChan(inMessages, c1) ELSE c1
           p2 == inMessages # NilChan /\ ClosePanics(inMessages, c1)
       IN /\ closedChans' = c2
          /\ panicked' = IF p1 \/ p2 THEN "close of closed channel" ELSE panicked
    /\ outBytes' = 0
    /\ outMessages' = OutChanOf(resets + 1)
    /\ outChunkSize' = DEFAULT_CHUNK_SIZE
    /\ outWindowSize' = DEFAULT_WINDOW_SIZE
    /\ outChunkStreams' = {}
    /\ inBytes' = 0
    /\ inMessages' = InChanOf(resets + 1)
    /\ inChunkSize' = DEFAULT_CHUNK_SIZE
    /\ inWindowSize' = DEFAULT_WINDOW_SIZE
    /\ inChunkStreams' = {}
    /\ responses' = EmptyTable
    /\ lastTransactionId' = 0
    /\ connectionId' = ""
    /\ resets' = resets + 1
    /\ idLog' = <<>>
    /\ owed' = EmptyTable
    /\ track' = [NoTrack EXCEPT !.firstSeq = nextSeq]
    /\ last' = Ret(op, 0, FALSE, NoResponse, NoResponse, "", last.op \in ResetOps)
    /\ UNCHANGED <<url, conn, results, responsesMutex, procVars, dispatched, dials,
                   nextSeq, hsOk, cmdOk>>

Reset == ResetFields("Reset")

\* ---------------------------------------------------- Disconnect (99-102)
Disconnect == ResetFields("Disconnect")

\* ------------------------------------------------------ Connect (104-162)
\* The caller starts Connect on a session that is not connected (reconnecting
\* a connected session without a Reset is outside the caller's contract), and
\* one Connect runs at a time.
ConnectFail(why) ==
    /\ cpc' = "idle"
    /\ cid' = ""
    /\ last' = Ret("ConnectFail", 0, FALSE, NoResponse, NoResponse, why, FALSE)

\* lines 107-135: url.Parse, the scheme switch, DialTimeout, the TLS handshake
ConnectDial ==
    /\ Running
    /\ cpc = "idle"
    /\ ~connected
    /\ \E dialOk \in BOOLEAN, tlsOk \in BOOLEAN :
          IF url = "unparsable" THEN
              /\ ConnectFail("parse")
              /\ UNCHANGED <<conn, dials>>
          ELSE IF url = "unsupported" THEN
              /\ ConnectFail("scheme")
              /\ UNCHANGED <<conn, dials>>
          ELSE IF ~dialOk THEN
              /\ ConnectFail("dial")
              /\ UNCHANGED <<conn, dials>>
          ELSE IF url = "rtmps" /\ ~tlsOk THEN
              /\ ConnectFail("tls")
              /\ UNCHANGED <<conn, dials>>
          ELSE
              /\ conn' = dials + 1
              /\ dials' = dials + 1
              /\ cpc' = "dialed"
              /\ cid' = ""
              /\ last' = Quiet
    /\ UNCHANGED <<url, connected, outBytes, outMessages, outWindowSize, outChunkSize,
                   outChunkStreams, inBytes, inMessages, inWindowSize, inChunkSize,
                   inChunkStreams, responses, lastTransactionId, connectionId, results,
                   runtimeVars, routers, sendLoops, recvLoops, calls,
                   idLog, owed, track, dispatched, resets, responsesMutex,
                   nextSeq, hsOk, cmdOk>>

\* lines 139-148: c.handshake(), then go receiveLoop / sendLoop / routeLoop.
\* The handshake is I/O on c.conn: it cannot succeed on a closed transport.
ConnectHandshake ==
    /\ Running
    /\ cpc = "dialed"
    /\ \E ok \in BOOLEAN :
          IF ok /\ conn \notin closedConns THEN
              \E r \in Routers :
                 /\ routers[r].pc = "none"
                 /\ \A q \in Routers : q < r => routers[q].pc # "none"
                 /\ routers' = [routers EXCEPT
                                  ![r] = [IdleRouter EXCEPT !.pc = "top", !.born = resets]]
                 /\ recvLoops' = recvLoops \cup {conn}
                 /\ sendLoops' = sendLoops \cup {outMessages}
                 /\ hsOk' = hsOk \cup {conn}
                 /\ cpc' = "connecting"
                 /\ cid' = ""
                 /\ last' = Quiet
          ELSE
              /\ ~ok
              /\ ConnectFail("handshake")
              /\ UNCHANGED <<routers, recvLoops, sendLoops, hsOk>>
    /\ UNCHANGED <<clientVars, runtimeVars, calls,
                   idLog, owed, track, dispatched, resets, responsesMutex,
                   dials, nextSeq, cmdOk>>

\* (variant: connected is set before the result of c.connect() is checked)
ConnectCommand_flaggedEarly ==
    /\ Running
    /\ cpc = "connecting"
    /\ connected' = TRUE
    /\ \E ok \in BOOLEAN :
          IF ok /\ conn \notin closedConns THEN
              /\ cpc' = "connectReturned"
              /\ cid' = "id"
              /\ cmdOk' = cmdOk \cup {conn}
              /\ last' = Quiet
          ELSE
              /\ ~ok
              /\ ConnectFail("connect")
              /\ UNCHANGED cmdOk
    /\ UNCHANGED <<url, conn, outBytes, outMessages, outWindowSize, outChunkSize,
                   outChunkStreams, inBytes, inMessages, inWindowSize, inChunkSize,
                   inChunkStreams, responses, lastTransactionId, connectionId, results,
                   runtimeVars, routers, sendLoops, recvLoops, calls,
                   idLog, owed, track, dispatched, resets, responsesMutex,
                   dials, nextSeq, hsOk, cmdOk>>

\* lines 150-154: id, err = c.connect().  The round trip is with the server:
\* it can succeed only while the transport is open.
ConnectCommand ==
    /\ Running
    /\ cpc = "connecting"
    /\ \E ok \in BOOLEAN :
          IF ok /\ conn \notin closedConns THEN
              /\ cpc' = "connectReturned"
              /\ cid' = "id"
              /\ cmdOk' = cmdOk \cup {conn}
              /\ last' = Quiet
          ELSE
              /\ ~ok
              /\ ConnectFail("connect")
              /\ UNCHANGED cmdOk
    /\ UNCHANGED <<clientVars, runtimeVars, routers, sendLoops, recvLoops, calls,
                   idLog, owed, track, dispatched, resets, responsesMutex,
                   dials, nextSeq, hsOk>>

\* lines 156-161: c.connected = true; c.connectionId = id; return nil
ConnectFinish ==
    /\ Running
    /\ cpc = "connectReturned"
    /\ connected' = TRUE
    /\ connectionId' = cid
    /\ cpc' = "idle"
    /\ cid' = ""
    /\ last' = Other("ConnectOk")
    /\ UNCHANGED <<url, conn, outBytes, outMessages, outWindowSize, outChunkSize,
                   outChunkStreams, inBytes, inMessages, inWindowSize, inChunkSize,
                   inChunkStreams, responses, lastTransactionId, results,
                   runtimeVars, routers, sendLoops, recvLoops, calls,
                   idLog, owed, track, dispatched, resets, responsesMutex,
                   dials, nextSeq, hsOk, cmdOk>>

\* ------------------------------------------------ Read / Write (208-220)
\* n bytes moved on the transport (none once it is closed) are added to the
\* 32-bit counter.
Read ==
    /\ Running
    /\ conn # NilConn
    /\ \E n \in 0..1 :
          /\ conn \in closedConns => n = 0
          /\ inBytes' = Uint32(inBytes + n)
    /\ last' = Quiet
    /\ UNCHANGED <<url, connected, conn, outBytes, outMessages, outWindowSize,
                   outChunkSize, outChunkStreams, inMessages, inWindowSize, inChunkSize,
                   inChunkStreams, responses, lastTransactionId, connectionId, results,
                   runtimeVars, procVars,
                   idLog, owed, track, dispatched, resets, responsesMutex,
                   dials, nextSeq, hsOk, cmdOk>>

Write ==
    /\ Running
    /\ conn # NilConn
    /\ \E n \in 0..1 :
          /\ conn \in closedConns => n = 0
          /\ outBytes' = Uint32(outBytes + n)
    /\ last' = Quiet
    /\ UNCHANGED <<url, connected, conn, outMessages, outWindowSize,
                   outChunkSize, outChunkStreams, inBytes, inMessages, inWindowSize,
                   inChunkSize, inChunkStreams, responses, lastTransactionId,
                   connectionId, results, runtimeVars, procVars,
                   idLog, owed, track, dispatched, resets, responsesMutex,
                   dials, nextSeq, hsOk, cmdOk>>

\* ------------------------------------------- NextTransactionId (164-166)
\* (variant: the increment is lost)
AddUint32_lost(v, d) == Uint32(v)

\* atomic.AddUint32(&v, d): one indivisible step that returns the new value
AddUint32(v, d) == Uint32(v + d)

NextTransactionId ==
    /\ Running
    /\ lastTransactionId' = AddUint32(lastTransactionId, 1)
    /\ idLog' = Append(idLog, lastTransactionId')
    /\ last' = Quiet
    /\ UNCHANGED <<url, connected, conn, outBytes, outMessages, outWindowSize,
                   outChunkSize, outChunkStreams, inBytes, inMessages, inWindowSize,
                   inChunkSize, inChunkStreams, responses, connectionId, results,
                   runtimeVars, procVars,
                   owed, track, dispatched, resets, responsesMutex,
                   dials, nextSeq, hsOk, cmdOk>>

\* ------------------------------------------------- GetResponse (168-177)
\* (variant: the entry is returned but not deleted)
GetResponse_kept(table, tid) ==
    [response |-> table[tid], ready |-> table[tid] # NoResponse, table |-> table]

\* (variant: a ready lookup empties the whole table)
GetResponse_emptied(table, tid) ==
    [response |-> table[tid], ready |-> table[tid] # NoResponse,
     table |-> IF table[tid] # NoResponse THEN EmptyTable ELSE table]

\* Under responsesMutex: look tid up in c.responses; a stored (non-nil)
\* response is returned with ready = true and deleted.
GetResponse(table, tid) ==
    LET response == table[tid]
    IN IF response # NoResponse
       THEN [response |-> response, ready |-> TRUE,
             table |-> [table EXCEPT ![tid] = NoResponse]]
       ELSE [response |-> response, ready |-> FALSE, table |-> table]

\* a caller's GetResponse(tid)
CallGetResponse ==
    /\ Running
    /\ responsesMutex = NoHolder
    /\ \E tid \in Tids :
          LET g == GetResponse(responses, tid)
          IN /\ responses' = g.table
             /\ last' = Ret("GetResponse", tid, g.ready, g.response, owed[tid], "",
                            last.op = "GetResponse" /\ last.tid = tid /\ last.ready)
             /\ owed' = [owed EXCEPT ![tid] = NoResponse]
    /\ UNCHANGED track
    /\ UNCHANGED <<url, connected, conn, outBytes, outMessages, outWindowSize,
                   outChunkSize, outChunkStreams, inBytes, inMessages, inWindowSize,
                   inChunkSize, inChunkStreams, lastTransactionId, connectionId, results,
                   runtimeVars, procVars,
                   idLog, dispatched, resets, responsesMutex, dials, nextSeq, hsOk, cmdOk>>

\* GetResponse in two steps, for the interleavings with a unit that does not
\* take the lock.  Line 169: c.responsesMutex.Lock()
GetResponseLock ==
    /\ Running
    /\ responsesMutex = NoHolder
    /\ \E tid \in Tids : responsesMutex' = tid
    /\ last' = Quiet
    /\ UNCHANGED <<clientVars, runtimeVars, procVars,
                   idLog, owed, track, dispatched, resets, dials, nextSeq, hsOk, cmdOk>>

\* lines 170-176: the lookup and the delete, then the deferred Unlock
GetResponseReturn ==
    /\ Running
    /\ responsesMutex # NoHolder
    /\ LET tid == responsesMutex
           g == GetResponse(responses, tid)
       IN /\ responses' = g.table
          /\ last' = Ret("GetResponse", tid, g.ready, g.response, owed[tid], "",
                         last.op = "GetResponse" /\ last.tid = tid /\ last.ready)
          /\ owed' = [owed EXCEPT ![tid] = NoResponse]
    /\ responsesMutex' = NoHolder
    /\ UNCHANGED <<url, connected, conn, outBytes, outMessages, outWindowSize,
                   outChunkSize, outChunkStreams, inBytes, inMessages, inWindowSize,
                   inChunkSize, inChunkStreams, lastTransactionId, connectionId, results,
                   runtimeVars, procVars,
                   idLog, track, dispatched, resets, dials, nextSeq, hsOk, cmdOk>>

\* ----------------------------------- SendMessage (179-181), Call (183-206)
\* Call(msg, t) with msg.TransactionId = tid.  SendMessage evaluates
\* c.outMessages and blocks in the send on that channel.
CallStart(p) ==
    /\ Running
    /\ calls[p].pc = "idle"
    /\ \E tid \in Tids :
          calls' = [calls EXCEPT ![p] = [pc |-> "send", tid |-> tid, ch |-> outMessages]]
    /\ last' = Quiet
    /\ UNCHANGED <<clientVars, runtimeVars, cpc, cid, routers, sendLoops, recvLoops,
                   idLog, owed, track, dispatched, resets, responsesMutex,
                   dials, nextSeq, hsOk, cmdOk>>

\* The send completes when a send loop receives from the channel; a send on a
\* closed channel panics.  The send loop frames the message, which creates the
\* outbound chunk-stream state of the command stream.
SendMessage(p) ==
    /\ Running
    /\ calls[p].pc = "send"
    /\ IF calls[p].ch \in closedChans THEN
          /\ panicked' = "send on closed channel"
          /\ UNCHANGED <<calls, outChunkStreams, closedChans, closedConns>>
       ELSE
          /\ calls[p].ch \in sendLoops
          /\ calls' = [calls EXCEPT ![p].pc = "wait"]
          /\ outChunkStreams' = outChunkStreams \cup {"command"}
          /\ UNCHANGED runtimeVars
    /\ last' = Quiet
    /\ UNCHANGED <<url, connected, conn, outBytes, outMessages, outWindowSize,
                   outChunkSize, inBytes, inMessages, inWindowSize, inChunkSize,
                   inChunkStreams, responses, lastTransactionId, connectionId, results,
                   cpc, cid, routers, sendLoops, recvLoops,
                   idLog, owed, track, dispatched, resets, responsesMutex,
                   dials, nextSeq, hsOk, cmdOk>>

\* case <-ticker.C: res, ready := c.GetResponse(tid); if ready, return res, nil
CallTick(p) ==
    /\ Running
    /\ calls[p].pc = "wait"
    /\ responsesMutex = NoHolder
    /\ LET tid == calls[p].tid
           g == GetResponse(responses, tid)
       IN /\ responses' = g.table
          /\ IF g.ready
             THEN /\ calls' = [calls EXCEPT ![p] = IdleCall]
                  /\ last' = Ret("Call", tid, TRUE, g.response, owed[tid], "nil", FALSE)
             ELSE /\ UNCHANGED calls
                  /\ last' = Ret("CallTick", tid, FALSE, NoResponse, owed[tid], "", FALSE)
          /\ owed' = IF g.ready THEN [owed EXCEPT ![tid] = NoResponse] ELSE owed
    /\ UNCHANGED track
    /\ UNCHANGED <<url, connected, conn, outBytes, outMessages, outWindowSize,
                   outChunkSize, outChunkStreams, inBytes, inMessages, inWindowSize,
                   inChunkSize, inChunkStreams, lastTransactionId, connectionId, results,
                   runtimeVars, cpc, cid, routers, sendLoops, recvLoops,
                   idLog, dispatched, resets, responsesMutex, dials, nextSeq, hsOk, cmdOk>>

\* case <-timeout: return response (nil), ErrResponseTimeout
CallTimeout(p) ==
    /\ Running
    /\ calls[p].pc = "wait"
    /\ calls' = [calls EXCEPT ![p] = IdleCall]
    /\ last' = Ret("Call", calls[p].tid, FALSE, NoResponse, owed[calls[p].tid],
                   "ErrResponseTimeout", FALSE)
    /\ track' = [track EXCEPT !.timedOut = @ \cup {calls[p].tid}]
    /\ UNCHANGED <<clientVars, runtimeVars, cpc, cid, routers, sendLoops, recvLoops,
                   idLog, owed, dispatched, resets, responsesMutex,
                   dials, nextSeq, hsOk, cmdOk>>

\* ------------------------------------------ routeLoop (client_route.go 3-23)
\* The messages the receive side can put on the inbound queue.
\* A command message carries a transaction id in its header whether or not its
\* payload decodes.
CommandShapes ==
    { [NoMsg EXCEPT !.csid = "command", !.decodes = b, !.tid = t] :
        b \in BOOLEAN, t \in Tids }

InboundShapes ==
    { [NoMsg EXCEPT !.csid = "protocol", !.ptype = t] : t \in {"setChunkSize", "windowAck"} }
    \cup { [NoMsg EXCEPT !.csid = "other"] }
    \cup CommandShapes

\* line 5, first half: the loop evaluates c.inMessages
RouteLoopTop(r) ==
    /\ Running
    /\ routers[r].pc = "top"
    /\ routers' = [routers EXCEPT ![r].pc = "recv", ![r].ch = inMessages]
    /\ last' = Quiet
    /\ UNCHANGED <<clientVars, runtimeVars, cpc, cid, sendLoops, recvLoops, calls,
                   idLog, owed, track, dispatched, resets, responsesMutex,
                   dials, nextSeq, hsOk, cmdOk>>

\* lines 5-12: the receive returns.  On a closed channel open is false and the
\* loop exits; otherwise the receive loop of an open transport hands over its
\* next message on the session's current inbound queue.
RouteLoopRecv(r, shapes) ==
    /\ Running
    /\ routers[r].pc = "recv"
    /\ IF routers[r].ch \in closedChans THEN
          /\ routers' = [routers EXCEPT ![r].pc = "done"]
          /\ UNCHANGED <<nextSeq, inChunkStreams>>
       ELSE
          /\ routers[r].ch = inMessages
          /\ conn \in recvLoops
          /\ conn \notin closedConns
          /\ \E m \in shapes :
                /\ routers' = [routers EXCEPT ![r].pc = "dispatch",
                                              ![r].msg = [m EXCEPT !.seq = nextSeq]]
                /\ inChunkStreams' = inChunkStreams \cup {m.csid}
          /\ nextSeq' = nextSeq + 1
    /\ last' = Quiet
    /\ UNCHANGED <<url, connected, conn, outBytes, outMessages, outWindowSize,
                   outChunkSize, outChunkStreams, inBytes, inMessages, inWindowSize,
                   inChunkSize, responses, lastTransactionId, connectionId, results,
                   runtimeVars, cpc, cid, sendLoops, recvLoops, calls,
                   idLog, owed, track, dispatched, resets, responsesMutex, dials, hsOk, cmdOk>>

\* msg.DecodeResult: the decoded result carries the transaction id and the
\* payload (named by the message), or decoding fails
DecodeResult(msg) ==
    IF msg.decodes
    THEN [err |-> FALSE, TransactionId |-> msg.tid, result |-> msg.seq]
    ELSE [err |-> TRUE, TransactionId |-> 0, result |-> NoResponse]

\* (variant: the result is stored in c.responses, the table GetResponse reads)
routeCommandMessage_responses(msg) ==
    LET d == DecodeResult(msg)
        tid == Uint32(d.TransactionId)
    IN IF d.err
       THEN <<results, responses>>
       ELSE <<results, [responses EXCEPT ![tid] = d.result]>>

\* (variant: the decode error is not checked and the message is stored under
\* the transaction id of its header)
routeCommandMessage_unchecked(msg) ==
    <<[results EXCEPT ![msg.tid] = msg.seq], responses>>

\* routeCommandMessage (client_route.go 25-37): on a decode error the message
\* is discarded; otherwise, under resultsMutex, c.results[tid] = result.
\* The value is the pair <<results', responses'>>.
routeCommandMessage(msg) ==
    LET d == DecodeResult(msg)
        tid == Uint32(d.TransactionId)
    IN IF d.err
       THEN <<results, responses>>
       ELSE <<[results EXCEPT ![tid] = d.result], responses>>

\* The protocol control handler: set chunk size and window acknowledgement size
\* update the inbound chunk size and the inbound window size.
\* The value is the pair <<inChunkSize', inWindowSize'>>.
handleProtocolMessage(msg) ==
    IF msg.ptype = "setChunkSize" THEN <<2 * DEFAULT_CHUNK_SIZE, inWindowSize>>
    ELSE IF msg.ptype = "windowAck" THEN <<inChunkSize, 2 * DEFAULT_WINDOW_SIZE>>
    ELSE <<inChunkSize, inWindowSize>>

\* (variant: the default case is missing and the command case catches the rest)
Handler_noDefault(csid) ==
    IF csid = "protocol" THEN "handleProtocolMessage" ELSE "routeCommandMessage"

\* lines 14-21: the switch on msg.ChunkStreamId; the default case logs a
\* warning and discards the message
Handler(csid) ==
    IF csid = "protocol" THEN "handleProtocolMessage"
    ELSE IF csid = "command" THEN "routeCommandMessage"
    ELSE "discard"

\* lines 14-21: dispatch on the chunk stream id, then loop
RouteLoopDispatch(r) ==
    /\ Running
    /\ routers[r].pc = "dispatch"
    /\ LET msg == routers[r].msg
           d == DecodeResult(msg)
           h == Handler(msg.csid)
           stores == h = "routeCommandMessage" /\ ~d.err
       IN /\ IF h = "handleProtocolMessage" THEN
                /\ inChunkSize' = handleProtocolMessage(msg)[1]
                /\ inWindowSize' = handleProtocolMessage(msg)[2]
                /\ UNCHANGED <<results, responses>>
             ELSE IF h = "routeCommandMessage" THEN
                /\ results' = routeCommandMessage(msg)[1]
                /\ responses' = routeCommandMessage(msg)[2]
                /\ UNCHANGED <<inChunkSize, inWindowSize>>
             ELSE
                UNCHANGED <<inChunkSize, inWindowSize, results, responses>>
          /\ owed' = IF stores THEN [owed EXCEPT ![msg.tid] = msg.seq] ELSE owed
          /\ track' = IF stores
                      THEN [track EXCEPT
                              !.overwrote = IF owed[msg.tid] # NoResponse
                                            THEN @ \cup {msg.seq} ELSE @,
                              !.late = IF msg.tid \in track.timedOut
                                       THEN @ \cup {msg.seq} ELSE @]
                      ELSE track
          /\ dispatched' = IF msg.seq > dispatched THEN msg.seq ELSE dispatched
          /\ last' = Ret("Dispatch", IF stores THEN msg.tid ELSE 0, FALSE,
                         IF stores THEN msg.seq ELSE NoResponse, NoResponse, h, FALSE)
    /\ routers' = [routers EXCEPT ![r].pc = "top", ![r].msg = NoMsg]
    /\ UNCHANGED <<url, connected, conn, outBytes, outMessages, outWindowSize,
                   outChunkSize, outChunkStreams, inBytes, inMessages, inChunkStreams,
                   lastTransactionId, connectionId,
                   runtimeVars, cpc, cid, sendLoops, recvLoops, calls,
                   idLog, resets, responsesMutex, dials, nextSeq, hsOk, cmdOk>>

\* ----------------------------------------------------------- specifications
ProtocolShapes == { m \in InboundShapes : m.csid = "protocol" }

\* Routing: Connect, Reset/Disconnect and the route loops, on every kind of
\* inbound message.
Next ==
    \/ resets < RouteResets /\ Reset
    \/ resets < RouteResets /\ Disconnect
    \/ dials < RouteDials /\ ConnectDial
    \/ ConnectHandshake
    \/ ConnectCommand
    \/ ConnectFinish
    \/ \E r \in Routers : RouteLoopTop(r)
    \/ \E r \in Routers : nextSeq <= RouteMsgs /\ RouteLoopRecv(r, InboundShapes)
    \/ \E r \in Routers : RouteLoopDispatch(r)

Spec == Init /\ [][Next]_vars

\* The session's life cycle: Connect, Reset/Disconnect, and everything that
\* moves a per-connection field away from its default.
NextLife ==
    \/ resets < LifeResets /\ Reset
    \/ resets < LifeResets /\ Disconnect
    \/ dials < LifeDials /\ ConnectDial
    \/ ConnectHandshake
    \/ ConnectCommand
    \/ ConnectFinish
    \/ inBytes < LifeBytes /\ Read
    \/ outBytes < LifeBytes /\ Write
    \/ Len(idLog) < LifeAlloc /\ NextTransactionId
    \/ \E r \in Routers : RouteLoopTop(r)
    \/ \E r \in Routers : nextSeq <= LifeMsgs /\ RouteLoopRecv(r, ProtocolShapes)
    \/ \E r \in Routers : RouteLoopDispatch(r)

SpecLife == Init /\ [][NextLife]_vars

\* Transaction correlation: one Connect call and the pipeline it starts, routing
\* command messages, with callers in Call and GetResponse, and Reset.
NextCall ==
    \/ resets < CallResets /\ Reset
    \/ dials = 0 /\ ConnectDial
    \/ ConnectHandshake
    \/ ConnectCommand
    \/ ConnectFinish
    \/ CallGetResponse /\ last'.tid <= CallTids
    \/ \E p \in 1..CallCallers : CallStart(p) /\ calls'[p].tid <= CallTids
    \/ \E p \in 1..CallCallers : SendMessage(p)
    \/ \E p \in 1..CallCallers : CallTick(p)
    \/ \E p \in 1..CallCallers : CallTimeout(p)
    \/ \E r \in Routers : RouteLoopTop(r)
    \/ \E r \in Routers :
          nextSeq <= CallMsgs
          /\ RouteLoopRecv(r, {m \in CommandShapes : m.tid <= CallTids})
    \/ \E r \in Routers : RouteLoopDispatch(r)

SpecCall == InitState({"rtmp"}, {EmptyTable}) /\ [][NextCall]_vars

\* The router of one connection on every kind of inbound message, with callers
\* of GetResponse, and Reset.
NextStore ==
    \/ resets < StoreResets /\ Reset
    \/ dials = 0 /\ ConnectDial
    \/ ConnectHandshake
    \/ ConnectCommand
    \/ ConnectFinish
    \/ CallGetResponse
    \/ \E r \in Routers : RouteLoopTop(r)
    \/ \E r \in Routers : nextSeq <= StoreMsgs /\ RouteLoopRecv(r, InboundShapes)
    \/ \E r \in Routers : RouteLoopDispatch(r)

SpecStore == InitState({"rtmp"}, {EmptyTable}) /\ [][NextStore]_vars

\* Id allocation by concurrent callers, across Reset.
NextIds ==
    \/ Len(idLog) < IdsAlloc /\ NextTransactionId
    \/ resets < IdsResets /\ Reset
    \/ resets < IdsResets /\ Disconnect
    \/ dials < IdsDials /\ ConnectDial
    \/ ConnectHandshake
    \/ ConnectCommand
    \/ ConnectFinish

SpecIds == Init /\ [][NextIds]_vars

\* GetResponse as a function of the response table: every content of the table
\* (responses 1..TableResponses under each id) is an initial state.
AllTables == [Tids -> 0..TableResponses]

NextTable ==
    \/ CallGetResponse
    \/ Len(idLog) < TableAlloc /\ NextTransactionId
    \/ resets < TableResets /\ Reset
    \/ resets < TableResets /\ Disconnect

SpecTable == InitState(UrlKinds, AllTables) /\ [][NextTable]_vars

\* Retrieval by concurrent callers: Call invocations on one connection and
\* GetResponse, from every table in which an id holds nothing or a response
\* of its own (named by the id).
IsoTables ==
    { tb \in [Tids -> 0..MaxTid] : \A t \in Tids : tb[t] \in {NoResponse, t} }

NextIso ==
    \/ dials = 0 /\ ConnectDial
    \/ ConnectHandshake
    \/ ConnectCommand
    \/ ConnectFinish
    \/ CallGetResponse
    \/ \E p \in 1..IsoCallers : CallStart(p)
    \/ \E p \in 1..IsoCallers : SendMessage(p)
    \/ \E p \in 1..IsoCallers : CallTick(p)
    \/ \E p \in 1..IsoCallers : CallTimeout(p)

SpecIso == InitState({"rtmp"}, IsoTables) /\ [][NextIso]_vars

\* The response table under its lock: GetResponse taking and releasing
\* responsesMutex, against Reset and Disconnect and the router of one
\* connection.
NextLock ==
    \/ GetResponseLock
    \/ GetResponseReturn
    \/ resets < LockResets /\ Reset
    \/ resets < LockResets /\ Disconnect
    \/ dials = 0 /\ ConnectDial
    \/ ConnectHandshake
    \/ ConnectCommand
    \/ ConnectFinish
    \/ \E r \in Routers : RouteLoopTop(r)
    \/ \E r \in Routers : nextSeq <= LockMsgs /\ RouteLoopRecv(r, CommandShapes)
    \/ \E r \in Routers : RouteLoopDispatch(r)

SpecLock == InitState({"rtmp"}, AllTables) /\ [][NextLock]_vars

\* ------------------------------------------------------------------ claims

\* C1: a command message the router dispatches for transaction id T is
\* retrieved exactly once: the next GetResponse(T) is ready and returns that
\* response, and a GetResponse(T) with nothing newly routed is not ready.
C1_RoutedResponseRetrievedOnce ==
    last.op = "GetResponse" =>
        /\ last.ready <=> last.due # NoResponse
        /\ last.resp = last.due

\* C2: GetResponse is single-delivery and never blocks: it is ready exactly
\* when a response is stored under the id, a ready call returns that response
\* and leaves no entry under the id, and a call that immediately follows a
\* ready call on the same id is not ready.
C2_SingleDelivery ==
    /\ Running => ENABLED CallGetResponse
    /\ last.op = "GetResponse" =>
          /\ last.ready => responses[last.tid] = NoResponse /\ last.resp # NoResponse
          /\ last.ready = (last.due # NoResponse)
          /\ last.ready => last.resp = last.due
          /\ last.again => ~last.ready

C2_Witness ==
    last.op = "GetResponse" /\ last.again /\ ~last.ready

\* C3: within one session the ids NextTransactionId returns, in the order of
\* the increments, are strictly increasing (so no two are equal).
C3_IdsStrictlyIncreasing ==
    \A i \in 1..Len(idLog) : \A j \in 1..Len(idLog) : i < j => idLog[i] < idLog[j]

C3_Witness ==
    Len(idLog) >= 3 /\ resets > 0

C5_PollFindsRoutedResponse ==
    last.op = "CallTick" => last.due = NoResponse

\* C6: connected is true only if the current transport completed the
\* handshake and the connect command, and has not been closed by a Reset.
C6_ConnectedOnlyWhileEstablished ==
    connected =>
        /\ conn # NilConn
        /\ conn \in hsOk
        /\ conn \in cmdOk
        /\ conn \notin closedConns

\* C7: a Connect that fails at any step returns with connected false and the
\* connection identifier empty.
C7_FailedConnectLeavesDisconnected ==
    last.op = "ConnectFail" => ~connected /\ connectionId = ""

C7_Witness ==
    last.op = "ConnectFail" /\ last.err = "connect" /\ resets > 0

\* C8: when Reset or Disconnect returns, connected is false, the transport and
\* the two queues of the session it ended are closed, the tables are empty,
\* the byte counters and the id counter are 0, the chunk sizes are 128, the
\* window sizes are 2,500,000 and the connection identifier is empty.
C8_ResetClearsSession ==
    last.op \in ResetOps =>
        /\ ~connected /\ ~IsAlive
        /\ conn # NilConn => conn \in closedConns
        /\ OutChanOf(resets - 1) \in closedChans
        /\ InChanOf(resets - 1) \in closedChans
        /\ responses = EmptyTable
        /\ outChunkStreams = {} /\ inChunkStreams = {}
        /\ outBytes = 0 /\ inBytes = 0
        /\ outChunkSize = 128 /\ inChunkSize = 128
        /\ outWindowSize = 2500000 /\ inWindowSize = 2500000
        /\ lastTransactionId = 0
        /\ connectionId = ""

C8_Witness ==
    last.op \in ResetOps /\ conn \in cmdOk /\ dispatched > 0 /\ ~last.again

\* What a caller can observe of the session: every per-connection field, and
\* whether the current queues are open.
Observable ==
    <<connected, outBytes, outWindowSize, outChunkSize, outChunkStreams,
      inBytes, inWindowSize, inChunkSize, inChunkStreams, responses,
      lastTransactionId, connectionId,
      outMessages \in closedChans, inMessages \in closedChans,
      conn = NilConn \/ conn \in closedConns>>

\* C9: a Reset or Disconnect that directly follows another one closes no
\* closed queue (nothing panics) and leaves the observable state as it was.
C9_RepeatedResetIsNoOp ==
    [][(last.op \in ResetOps /\ last'.op \in ResetOps /\ resets' # resets)
        => (panicked' = "no" /\ Observable' = Observable)]_vars

C9_Witness ==
    last.op \in ResetOps /\ last.again /\ panicked = "no" /\ conn \in closedConns

\* C10: one router consumes the inbound queue, and messages are dispatched in
\* the order they were taken from it: no two route loops receive on the same
\* open queue, and no loop holds a message older than one already dispatched.
C10_SingleConsumerFifo ==
    /\ \A r1 \in Routers : \A r2 \in Routers :
          (r1 # r2 /\ routers[r1].pc = "recv" /\ routers[r2].pc = "recv"
             /\ routers[r1].ch \notin closedChans)
          => routers[r1].ch # routers[r2].ch
    /\ \A r \in Routers :
          routers[r].pc = "dispatch" => routers[r].msg.seq > dispatched

\* one step of the route loop r, on any inbound message
RouteLoopStep(r) ==
    \/ RouteLoopTop(r)
    \/ RouteLoopRecv(r, InboundShapes)
    \/ RouteLoopDispatch(r)

\* C11: after a Reset or Disconnect every route loop started before it
\* terminates, whatever it was doing when the queue was replaced: such a loop
\* has exited or can take its next step towards the exit, and is never left
\* waiting on a queue that nobody closes or feeds.
C11_OldRoutersTerminate ==
    \A r \in Routers :
        (routers[r].pc \notin {"none", "done"} /\ routers[r].born < resets)
        => ENABLED RouteLoopStep(r)

\* C12: the response table holds one response per id and the last write wins:
\* when a second command message for an id was routed before the first was
\* retrieved, GetResponse for the id is ready and returns the second one.
C12_LastWriteWins ==
    (last.op = "GetResponse" /\ last.due \in track.overwrote)
    => (last.ready /\ last.resp = last.due)

\* C13: a command message that fails to decode is dropped: the route loop that
\* dispatches it changes neither table, does not stop, and is back at the top
\* of its loop, ready to receive the next message.
C13_UndecodableDropped ==
    [][\A r \in Routers :
          (/\ routers[r].pc = "dispatch"
           /\ routers[r].msg.csid = "command"
           /\ ~routers[r].msg.decodes
           /\ routers'[r] # routers[r])
          => (/\ results' = results
              /\ responses' = responses
              /\ panicked' = "no"
              /\ routers'[r].pc = "top")]_vars

\* a loop that dropped an undecodable first command message holds the next one
C13_Witness ==
    \E r \in Routers :
        /\ routers[r].pc = "dispatch"
        /\ routers[r].msg.seq > 1
        /\ routers[r].msg.decodes
        /\ dispatched >= 1
        /\ inChunkStreams = {"command"}
        /\ results = EmptyTable
        /\ panicked = "no"

C15_LateResponseRetrievable ==
    (last.op = "GetResponse" /\ last.due \in track.late)
    => (last.ready /\ last.resp = last.due)

\* C16: the response table is touched only under its lock: when Reset or
\* Disconnect replaces the table, no GetResponse is inside the section that
\* responsesMutex guards.
C16_TableLockGuarded ==
    last.op \in ResetOps => responsesMutex = NoHolder

\* one step of the Call invocation p
CallStep(p) ==
    \/ SendMessage(p)
    \/ CallTick(p)
    \/ CallTimeout(p)

\* C17: Call blocks only on a timed wait, so it always returns: while the
\* process runs, a Call that has not returned can take a step of its own
\* (its send completes, a tick polls, or the timeout fires), whether or not a
\* send loop is receiving from the outbound queue.
C17_CallAlwaysReturns ==
    \A p \in Callers :
        (Running /\ calls[p].pc # "idle") => ENABLED CallStep(p)

\* C18: under every interleaving of SendMessage and Call with Reset and
\* Disconnect, no message is sent on a closed outbound queue.
C18_NoSendOnClosedQueue ==
    panicked # "send on closed channel"

C20_RetrievalIsolated ==
    [][\A b \in Tids :
          responses'[b] # responses[b]
          => (/\ last'.op \in {"GetResponse", "Call"}
              /\ last'.tid = b
              /\ last'.ready
              /\ last'.resp = responses[b]
              /\ responses'[b] = NoResponse)]_vars

\* of two concurrent Calls on distinct ids one has returned its own response,
\* and the other still waits with its entry in place
C20_Witness ==
    /\ last.op = "Call"
    /\ last.ready
    /\ last.resp = last.tid
    /\ \E p \in Callers :
          /\ calls[p].pc = "wait"
          /\ calls[p].tid # last.tid
          /\ responses[calls[p].tid] = calls[p].tid

=============================================================================
